---- MODULE Spec2Model ----
(***************************************************************************)
(* Black-Scholes-Merton option modelling notebook                          *)
(* (python-templates/python-black-scholes-merton).                         *)
(*                                                                         *)
(* The notebook defines four numeric operations on the Market Parameters   *)
(* s0, r, sigma, t, k and on standard-normal draws z:                      *)
(*   bsm             the terminal price of one draw (math.exp cell)         *)
(*   bsm_vectorized  the terminal prices of a vector of draws (numpy.exp)  *)
(*   mc_call_price   the Monte Carlo estimate of the call price            *)
(*   call            the closed-form call price                            *)
(*                                                                         *)
(* Python floats are modelled as fixed-point integers: the integer v       *)
(* stands for the real number v / Scale.  exp, sqrt, ln and the normal     *)
(* CDF are computed by series on that representation, to about 2 units in  *)
(* the last place, so that every formula below is an actual computation.   *)
(***************************************************************************)
EXTENDS Integers, Sequences, FiniteSets, TLC

VARIABLES
    mp,     \* the Market Parameters [s0, r, sigma, t, k] (fixed-point)
    draws,  \* the standard-normal draws handed to the operations (sequence)
    out,    \* what the last executed operation produced
    rng,    \* how many variates have been taken from the random source
    pc,     \* the computation in progress, "idle" between calls
    pass,   \* the estimator's pass: paths done, their prices, payoff total
    widget, \* the interact sliders' values, once the widget exists
    kernel  \* the kernel's namespace and the cells run so far

vars == <<mp, draws, out, rng, pc, pass, widget, kernel>>

-----------------------------------------------------------------------------
(* Fixed-point arithmetic: the float operations the notebook's formulas use *)

Scale == 1000000
Base == 1000

Abs(x) == IF x < 0 THEN 0 - x ELSE x
Sgn(x) == IF x < 0 THEN 0 - 1 ELSE 1
Max(a, b) == IF a >= b THEN a ELSE b

\* a / n for an integer n > 0, rounded to nearest
IntDiv(a, n) == Sgn(a) * ((Abs(a) + (n \div 2)) \div n)

\* a * b, rounded to nearest; the operands are split so that every
\* intermediate product stays within 32-bit integers
MulAbs(a, b) ==
    LET a1 == a \div Scale
        a0 == a % Scale
        b1 == b \div Scale
        b0 == b % Scale
        ah == a0 \div Base
        al == a0 % Base
        bh == b0 \div Base
        bl == b0 % Base
    IN  a1 * b1 * Scale + a1 * b0 + a0 * b1 + ah * bh
          + (((ah * bl + al * bh) * Base + al * bl + (Scale \div 2)) \div Scale)

Mul(a, b) == Sgn(a) * Sgn(b) * MulAbs(Abs(a), Abs(b))

\* a / b for b # 0, by long division, one decimal digit at a time
RECURSIVE DivDigits(_, _, _, _)
DivDigits(rem, b, n, acc) ==
    IF n = 0 THEN acc + (IF 2 * rem >= b THEN 1 ELSE 0)
    ELSE DivDigits((rem * 10) % b, b, n - 1, acc * 10 + ((rem * 10) \div b))

DivLimit == 200000000

DivAbs(a, b) ==
    IF b > DivLimit
    THEN DivDigits((a \div 16) % (b \div 16), b \div 16, 6,
                   (a \div 16) \div (b \div 16))
    ELSE DivDigits(a % b, b, 6, a \div b)

Div(a, b) == Sgn(a) * Sgn(b) * DivAbs(Abs(a), Abs(b))

\* exp: the power series for x >= 0, the reciprocal for x < 0; below ExpMin
\* the result underflows to 0 in this representation
RECURSIVE ExpSum(_, _, _, _)
ExpSum(x, term, n, acc) ==
    IF term = 0 THEN acc
    ELSE ExpSum(x, IntDiv(Mul(term, x), n), n + 1, acc + term)

ExpMin == 0 - 14000000
ExpSplit == 0 - 7000000

RECURSIVE Exp(_)
Exp(x) ==
    IF x < ExpMin THEN 0
    ELSE IF x < ExpSplit THEN LET h == Exp(x \div 2) IN Mul(h, h)
    ELSE IF x < 0 THEN Div(Scale, ExpSum(0 - x, Scale, 1, 0))
    ELSE ExpSum(x, Scale, 1, 0)

\* math.exp, used by the first bsm cell, and numpy.exp, which replaces it in
\* the vectorized cell; on the finite range modelled here they agree
MathExp(x) == Exp(x)
NumpyExp(x) == Exp(x)

\* sqrt for x >= 0, by Newton's iteration
RECURSIVE SqrtIter(_, _)
SqrtIter(x, y) ==
    LET y2 == (y + Div(x, y)) \div 2
    IN  IF y2 >= y THEN y ELSE SqrtIter(x, y2)

Sqrt(x) == IF x = 0 THEN 0 ELSE SqrtIter(x, IF x > Scale THEN x ELSE Scale)

\* ln for x > 0: halve or double into [1/2, 2], then 2 * atanh((x-1)/(x+1))
RECURSIVE AtanhSum(_, _, _, _)
AtanhSum(y2, pow, n, acc) ==
    IF pow = 0 THEN acc
    ELSE AtanhSum(y2, Mul(pow, y2), n + 2, acc + IntDiv(pow, n))

Ln2 == 693147

RECURSIVE Ln(_)
Ln(x) ==
    IF x > 2 * Scale THEN Ln(x \div 2) + Ln2
    ELSE IF 2 * x < Scale THEN Ln(2 * x) - Ln2
    ELSE LET y == Div(x - Scale, x + Scale)
         IN  2 * AtanhSum(Mul(y, y), y, 1, 0)

\* norm.cdf: the Taylor series of the CDF below TailCut, and above it the
\* continued fraction of the Mills ratio (1 - Phi(x)) / pdf(x)
InvSqrt2Pi == 398942
TailCut == 2000000
MillsDepth == 40

RECURSIVE PhiSum(_, _, _, _, _)
PhiSum(x2, p, n, sign, acc) ==
    IF p = 0 THEN acc
    ELSE PhiSum(x2, IntDiv(Mul(p, x2), 2 * (n + 1)), n + 1, 0 - sign,
                acc + sign * IntDiv(p, 2 * n + 1))

Pdf(x) == Mul(InvSqrt2Pi, Exp(0 - IntDiv(Mul(x, x), 2)))

\* x + 1/(x + 2/(x + ... + MillsDepth/x)), evaluated from the innermost
\* quotient outwards
RECURSIVE MillsCF(_, _, _)
MillsCF(x, j, acc) ==
    IF j = 0 THEN acc
    ELSE LET outer == x + Div(j * Scale, acc)
         IN  IF outer >= x THEN MillsCF(x, j - 1, outer) ELSE x

PhiPos(x) ==
    IF x < TailCut
    THEN (Scale \div 2) + Mul(InvSqrt2Pi, PhiSum(Mul(x, x), x, 0, 1, 0))
    ELSE Scale - Div(Pdf(x), MillsCF(x, MillsDepth, x))

Phi(x) == IF x < 0 THEN Scale - PhiPos(0 - x) ELSE PhiPos(x)

-----------------------------------------------------------------------------
(* Inputs *)

MaxLen == 2    \* longest vector of draws

S0Set == {0 - 100 * Scale, 0, 100 * Scale, 110 * Scale}
RSet == {0 - 20000, 30000}
SigmaSet == {0 - 400000, 0, 200000, 400000}
TSet == {0 - 250000, 0, 250000, Scale}
KSet == {0 - 105 * Scale, 0, 50 * Scale, 100 * Scale, 105 * Scale, 200 * Scale}
ZSet == {0 - 3 * Scale, 0, Scale}

RECURSIVE SeqsUpTo(_, _)
SeqsUpTo(S, n) ==
    IF n = 0 THEN {<<>>}
    ELSE LET shorter == SeqsUpTo(S, n - 1)
         IN  shorter \cup {Append(q, x) : q \in {p \in shorter : Len(p) = n - 1}, x \in S}

-----------------------------------------------------------------------------
(* Outcomes of an operation: a value, a vector of values, a raised error,  *)
(* or a NaN result                                                         *)

NoOut == [op |-> "none", kind |-> "none", val |-> 0, vals |-> <<>>, idx |-> 0]
Value(o, v) == [op |-> o, kind |-> "value", val |-> v, vals |-> <<>>, idx |-> 0]
Values(o, vs) == [op |-> o, kind |-> "value", val |-> 0, vals |-> vs, idx |-> 0]
Raised(o) == [op |-> o, kind |-> "error", val |-> 0, vals |-> <<>>, idx |-> 0]
NaN(o) == [op |-> o, kind |-> "nan", val |-> 0, vals |-> <<>>, idx |-> 0]

-----------------------------------------------------------------------------
(* Terminal Price Model: S = S_0 e^{(r - sigma^2/2) T + sigma sqrt(T) Z}     *)

\* sqrt(t) of a negative t: math.sqrt raises ValueError (math domain error),
\* numpy.sqrt yields nan, which the formula carries into every output; the
\* cells do not show which of the two the expression uses
SqrtOfNegative(o) == {Raised(o), NaN(o)}
SqrtOfNegativeVec(o, z) == {Raised(o), IF Len(z) = 0 THEN Values(o, <<>>) ELSE NaN(o)}

\* the exponent (r - 0.5 sigma^2) t + sigma sqrt(t) z
Exponent(r, sigma, t, z) ==
    Mul(r - IntDiv(Mul(sigma, sigma), 2), t) + Mul(Mul(sigma, Sqrt(t)), z)

\* bsm with the factor 1/2 of the drift correction left out
bsm_without_half(s_0, r, sigma, t, z) ==
    IF t < 0 THEN SqrtOfNegative("bsm")
    ELSE {Value("bsm", Mul(s_0, MathExp(Mul(r - Mul(sigma, sigma), t)
                                          + Mul(Mul(sigma, Sqrt(t)), z))))}

\* def bsm(s_0, r, sigma, t, z): return <the formula, with math.exp>
\* The body is one return statement: nothing is checked before the formula
\* is evaluated.
bsm(s_0, r, sigma, t, z) ==
    IF t < 0 THEN SqrtOfNegative("bsm")
    ELSE {Value("bsm", Mul(s_0, MathExp(Exponent(r, sigma, t, z))))}

\* the vectorized bsm as one Euler step, S_0 (1 + x), instead of S_0 e^x
bsm_vectorized_euler(s_0, r, sigma, t, z) ==
    IF t < 0 THEN SqrtOfNegativeVec("bsm_vec", z)
    ELSE {Values("bsm_vec",
                 [i \in 1..Len(z) |-> Mul(s_0, Scale + Exponent(r, sigma, t, z[i]))])}

\* the vectorized bsm using the first draw for every path
bsm_vectorized_first_draw(s_0, r, sigma, t, z) ==
    IF t < 0 THEN SqrtOfNegativeVec("bsm_vec", z)
    ELSE {Values("bsm_vec",
                 [i \in 1..Len(z) |-> Mul(s_0, NumpyExp(Exponent(r, sigma, t, z[1])))])}

\* the second bsm cell: math.exp replaced by numpy.exp, z a vector, the
\* formula broadcast over its elements
bsm_vectorized(s_0, r, sigma, t, z) ==
    IF t < 0 THEN SqrtOfNegativeVec("bsm_vec", z)
    ELSE {Values("bsm_vec",
                 [i \in 1..Len(z) |-> Mul(s_0, NumpyExp(Exponent(r, sigma, t, z[i])))])}

-----------------------------------------------------------------------------
(* Monte Carlo Option Estimator: the present value of the average option   *)
(* value at maturity                                                       *)

RECURSIVE SumSeq(_)
SumSeq(q) == IF q = <<>> THEN 0 ELSE q[1] + SumSeq(Tail(q))

Payoffs(prices, k) == [i \in 1..Len(prices) |-> Max(prices[i] - k, 0)]
Mean(q) == IntDiv(SumSeq(q), Len(q))
Discount(r, t) == Exp(0 - Mul(r, t))

\* the estimate with the discount factor dropped
mc_estimate_undiscounted(prices, r, t, k) == Mean(Payoffs(prices, k))

\* the estimate from n >= 1 terminal prices
mc_estimate(prices, r, t, k) == Mul(Discount(r, t), Mean(Payoffs(prices, k)))

\* draws -> terminal prices -> discounted mean payoff; a failure of the
\* Terminal Price Model propagates
mc_call_price(s_0, r, sigma, t, k, z) ==
    {IF o.kind = "value"
     THEN [op |-> "mc", kind |-> "value", val |-> mc_estimate(o.vals, r, t, k),
           vals |-> o.vals, idx |-> 0]
     ELSE [o EXCEPT !.op = "mc"] : o \in bsm_vectorized(s_0, r, sigma, t, z)}

-----------------------------------------------------------------------------
(* Closed-Form Pricer: C = Phi(d1) S - Phi(d2) K e^{-rt}                     *)

\* d1 with the drift r - sigma^2/2 of the price formula in place of
\* r + sigma^2/2
d1_drift_minus(s, r, sigma, t, k) ==
    Div(Ln(Div(s, k)) + Mul(r - IntDiv(Mul(sigma, sigma), 2), t),
        Mul(sigma, Sqrt(t)))

d1(s, r, sigma, t, k) ==
    Div(Ln(Div(s, k)) + Mul(r + IntDiv(Mul(sigma, sigma), 2), t),
        Mul(sigma, Sqrt(t)))

\* d2 with the volatility term added instead of subtracted
d2_plus(s, r, sigma, t, k) == d1(s, r, sigma, t, k) + Mul(sigma, Sqrt(t))

d2(s, r, sigma, t, k) == d1(s, r, sigma, t, k) - Mul(sigma, Sqrt(t))

\* call with the strike not discounted
call_formula_undiscounted(s, r, sigma, t, k) ==
    Mul(Phi(d1(s, r, sigma, t, k)), s) - Mul(Phi(d2(s, r, sigma, t, k)), k)

\* call with the price and the strike exchanged in the first term
call_formula_swapped(s, r, sigma, t, k) ==
    Mul(Phi(d1(s, r, sigma, t, k)), k)
      - Mul(Mul(Phi(d2(s, r, sigma, t, k)), s), Exp(0 - Mul(r, t)))

\* the put price, Phi(-d2) K e^{-rt} - Phi(-d1) S, returned as the call
call_formula_put(s, r, sigma, t, k) ==
    Mul(Mul(Phi(0 - d2(s, r, sigma, t, k)), k), Exp(0 - Mul(r, t)))
      - Mul(Phi(0 - d1(s, r, sigma, t, k)), s)

call_formula(s, r, sigma, t, k) ==
    Mul(Phi(d1(s, r, sigma, t, k)), s)
      - Mul(Mul(Phi(d2(s, r, sigma, t, k)), k), Exp(0 - Mul(r, t)))

\* the boundary check without the test of sigma
DomainError_without_sigma(s, sigma, t, k) == t < 0 \/ s <= 0 \/ k <= 0

\* negative sigma or t, non-positive s or k: rejected at the function boundary
DomainError(s, sigma, t, k) == sigma < 0 \/ t < 0 \/ s <= 0 \/ k <= 0

\* call(100, 0.03, 0.4, 3.0/12, 105) as the notebook printed it
RecordedCall == 6197850

\* the estimate cell's recorded output, 6.21022970391, of the run that
\* printed RecordedCall
RecordedEstimate == 6210230

\* call without the t = 0 case: the division by zero in d1 raises
call_without_t0(s, r, sigma, t, k) ==
    IF DomainError(s, sigma, t, k) THEN {Raised("call")}
    ELSE IF t = 0 \/ sigma = 0 THEN {Raised("call")}
    ELSE {Value("call", call_formula(s, r, sigma, t, k))}

\* def call(s, r, sigma, t, k): boundary check, then the t = 0 case
\* (intrinsic value), then the formula.  sigma = 0 with t > 0 divides by
\* zero in d1: the result is undefined, an error or a NaN.
call(s, r, sigma, t, k) ==
    IF DomainError(s, sigma, t, k) THEN {Raised("call")}
    ELSE IF t = 0 THEN {Value("call", Max(s - k, 0))}
    ELSE IF sigma = 0 THEN {Raised("call"), NaN("call")}
    ELSE {Value("call", call_formula(s, r, sigma, t, k))}

-----------------------------------------------------------------------------
(* The notebook's calls, made in any order and any number of times on the  *)
(* parameters of the session and on draws already taken from the random    *)
(* source                                                                  *)

\* the session state the function-level cells below do not touch
NoPass == [i |-> 0, prices |-> <<>>, sum |-> 0]
NoWidget == [made |-> FALSE, moved |-> {}, r |-> 0, sigma |-> 0, t |-> 0]
FreshKernel == [names |-> {}, bsm |-> "unbound", inorder |-> 0, last |-> "none",
                status |-> "ok", missing |-> "none"]

Init ==
    /\ mp \in [s0 : S0Set, r : RSet, sigma : SigmaSet, t : TSet, k : KSet]
    /\ draws \in SeqsUpTo(ZSet, MaxLen)
    /\ out = NoOut
    /\ rng = Len(draws)
    /\ pc = "idle"
    /\ pass = NoPass
    /\ widget = NoWidget
    /\ kernel = FreshKernel

\* print bsm(100, 0.03, 0.4, 3.0/12, np.random.standard_normal())
BsmCell ==
    /\ \E i \in 1..Len(draws) :
         \E o \in bsm(mp.s0, mp.r, mp.sigma, mp.t, draws[i]) :
            out' = [o EXCEPT !.idx = i]
    /\ UNCHANGED <<mp, draws, rng, pc, pass, widget, kernel>>

\* print bsm(100, 0.03, 0.4, 3.0/12, np.random.standard_normal(n))
BsmVectorCell ==
    /\ \E o \in bsm_vectorized(mp.s0, mp.r, mp.sigma, mp.t, draws) : out' = o
    /\ UNCHANGED <<mp, draws, rng, pc, pass, widget, kernel>>

\* the option price estimate cell, over n >= 1 paths
EstimateCell ==
    /\ Len(draws) >= 1
    /\ \E o \in mc_call_price(mp.s0, mp.r, mp.sigma, mp.t, mp.k, draws) : out' = o
    /\ UNCHANGED <<mp, draws, rng, pc, pass, widget, kernel>>

\* print call(100, 0.03, 0.4, 3.0/12, 105)
CallCell ==
    /\ \E o \in call(mp.s0, mp.r, mp.sigma, mp.t, mp.k) : out' = o
    /\ UNCHANGED <<mp, draws, rng, pc, pass, widget, kernel>>

Next == BsmCell \/ BsmVectorCell \/ EstimateCell \/ CallCell

Spec == Init /\ [][Next]_vars

-----------------------------------------------------------------------------
(* A session: every call takes its arguments and, where it samples, fresh  *)
(* variates from the random source, and then computes.  Drawing and        *)
(* computing are separate steps; the estimator visits its paths one by one *)

MaxDraws == 4    \* variates one session takes from the random source

Params(s_0, r, sigma, t, k) ==
    [s0 |-> s_0, r |-> r, sigma |-> sigma, t |-> t, k |-> k]

\* the arguments of the notebook's calls; a year to maturity in the money
\* at a negative rate; the notebook's arguments with a negative volatility
SessionParams ==
    {Params(100 * Scale, 30000, 400000, 250000, 105 * Scale),
     Params(110 * Scale, 0 - 20000, 200000, Scale, 100 * Scale),
     Params(100 * Scale, 30000, 0 - 400000, 250000, 105 * Scale)}

\* np.random.standard_normal(n): the vectors of n variates
Sample(n) == {q \in SeqsUpTo(ZSet, n) : Len(q) = n}

SessionInit ==
    /\ mp \in SessionParams
    /\ draws = <<>>
    /\ out = NoOut
    /\ rng = 0
    /\ pc = "idle"
    /\ pass = NoPass
    /\ widget = NoWidget
    /\ kernel = FreshKernel

\* the argument np.random.standard_normal() of bsm(100, 0.03, 0.4, 3.0/12, .)
DrawScalar ==
    /\ pc = "idle" /\ rng + 1 <= MaxDraws
    /\ mp' \in SessionParams
    /\ draws' \in Sample(1)
    /\ rng' = rng + 1
    /\ pc' = "bsm"
    /\ UNCHANGED <<out, pass, widget, kernel>>

\* bsm ignoring the z it is handed and drawing its own
BsmReturn_redraws ==
    /\ pc = "bsm"
    /\ draws' \in Sample(1)
    /\ rng' = rng + 1
    /\ \E o \in bsm(mp.s0, mp.r, mp.sigma, mp.t, draws'[1]) :
          out' = [o EXCEPT !.idx = 1]
    /\ pc' = "idle"
    /\ UNCHANGED <<mp, pass, widget, kernel>>

\* bsm(s_0, r, sigma, t, z) on the variate it is handed
BsmReturn ==
    /\ pc = "bsm"
    /\ \E o \in bsm(mp.s0, mp.r, mp.sigma, mp.t, draws[1]) :
          out' = [o EXCEPT !.idx = 1]
    /\ pc' = "idle"
    /\ UNCHANGED <<mp, draws, rng, pass, widget, kernel>>

\* the argument np.random.standard_normal(n) of the vectorized cell's call
DrawVector ==
    /\ pc = "idle"
    /\ \E n \in 1..MaxLen :
          /\ rng + n <= MaxDraws
          /\ draws' \in Sample(n)
          /\ rng' = rng + n
    /\ mp' \in SessionParams
    /\ pc' = "bsm_vec"
    /\ UNCHANGED <<out, pass, widget, kernel>>

\* the vectorized bsm on the vector it is handed
BsmVectorReturn ==
    /\ pc = "bsm_vec"
    /\ \E o \in bsm_vectorized(mp.s0, mp.r, mp.sigma, mp.t, draws) : out' = o
    /\ pc' = "idle"
    /\ UNCHANGED <<mp, draws, rng, pass, widget, kernel>>

\* the estimator's sampling step with the payoff total of the previous
\* estimate left in place
EstimateDraw_keeps_total ==
    /\ pc = "idle"
    /\ \E n \in 1..MaxLen :
          /\ rng + n <= MaxDraws
          /\ draws' \in Sample(n)
          /\ rng' = rng + n
    /\ mp' \in SessionParams
    /\ pc' = "mc"
    /\ pass' = [i |-> 0, prices |-> <<>>, sum |-> pass.sum]
    /\ UNCHANGED <<out, widget, kernel>>

\* the estimator, step 1: draw n >= 1 variates, one per path
EstimateDraw ==
    /\ pc = "idle"
    /\ \E n \in 1..MaxLen :
          /\ rng + n <= MaxDraws
          /\ draws' \in Sample(n)
          /\ rng' = rng + n
    /\ mp' \in SessionParams
    /\ pc' = "mc"
    /\ pass' = NoPass
    /\ UNCHANGED <<out, widget, kernel>>

\* the visit of one path, starting the pass over again after the last path
EstimatePath_second_pass ==
    /\ pc = "mc" /\ pass.i < Len(draws)
    /\ \E o \in bsm(mp.s0, mp.r, mp.sigma, mp.t, draws[pass.i + 1]) :
          /\ o.kind = "value"
          /\ pass' = IF pass.i + 1 = Len(draws) /\ Len(draws) > 1
                     THEN NoPass
                     ELSE [i |-> pass.i + 1,
                           prices |-> Append(pass.prices, o.val),
                           sum |-> pass.sum + Max(o.val - mp.k, 0)]
    /\ UNCHANGED <<mp, draws, out, rng, pc, widget, kernel>>

\* the estimator, steps 2 and 3 for one path: its terminal price and its
\* payoff max(S - k, 0), added to the total
EstimatePath ==
    /\ pc = "mc" /\ pass.i < Len(draws)
    /\ \E o \in bsm(mp.s0, mp.r, mp.sigma, mp.t, draws[pass.i + 1]) :
          /\ o.kind = "value"
          /\ pass' = [i |-> pass.i + 1,
                      prices |-> Append(pass.prices, o.val),
                      sum |-> pass.sum + Max(o.val - mp.k, 0)]
    /\ UNCHANGED <<mp, draws, out, rng, pc, widget, kernel>>

\* the estimator, step 4: the discounted mean of the payoffs
EstimateReturn ==
    /\ pc = "mc" /\ pass.i = Len(draws)
    /\ out' = [op |-> "mc", kind |-> "value",
               val |-> Mul(Discount(mp.r, mp.t), IntDiv(pass.sum, Len(draws))),
               vals |-> pass.prices, idx |-> 0]
    /\ pc' = "idle"
    /\ UNCHANGED <<mp, draws, rng, pass, widget, kernel>>

\* call(s, r, sigma, t, k): no argument of it is a draw
CallReturn ==
    /\ pc = "idle"
    /\ mp' \in SessionParams
    /\ \E o \in call(mp'.s0, mp'.r, mp'.sigma, mp'.t, mp'.k) : out' = o
    /\ UNCHANGED <<draws, rng, pc, pass, widget, kernel>>

SessionNext ==
    \/ DrawScalar \/ BsmReturn \/ DrawVector \/ BsmVectorReturn
    \/ EstimateDraw \/ EstimatePath \/ EstimateReturn \/ CallReturn

SpecSession == SessionInit /\ [][SessionNext]_vars

-----------------------------------------------------------------------------
(* The interact widget: three sliders, each a (min, max, step) range, and  *)
(* plot_histogram re-evaluated on the sliders' values whenever one moves   *)

Slider(lo, hi, step) == [lo |-> lo, hi |-> hi, step |-> step]

\* r=(0.0, 0.2, 0.01), sigma=(0.01, 1.0, 0.01), t=(0.01, 2, 0.01)
Sliders ==
    [r |-> Slider(0, 200000, 10000),
     sigma |-> Slider(10000, Scale, 10000),
     t |-> Slider(10000, 2 * Scale, 10000)]

SliderNames == {"r", "sigma", "t"}

\* the value interact gives a slider built from (min, max, step): the
\* midpoint of the range; ipywidgets releases from 7.0 on align it down to
\* the grid min + j step, earlier ones leave it at the midpoint
Midpoint(sl) == sl.lo + (sl.hi - sl.lo) \div 2
AlignDown(sl, v) == sl.lo + sl.step * ((v - sl.lo) \div sl.step)
InitialValue(sl, aligned) ==
    IF aligned THEN AlignDown(sl, Midpoint(sl)) ELSE Midpoint(sl)

\* slider positions with one past the upper end
Stops_past_max(sl) ==
    {sl.lo, sl.lo + sl.step, sl.hi - sl.step, sl.hi, sl.hi + sl.step}

\* the positions a move selects, min + j step up to max; of these, the two
\* ends and their neighbours
Stops(sl) == {sl.lo, sl.lo + sl.step, sl.hi - sl.step, sl.hi}

\* plot_histogram(r, sigma, t): the histogram of the terminal prices of
\* fresh draws at s0 = 100; out holds the prices handed to the histogram
PlotHistogram(w) ==
    /\ mp' = Params(100 * Scale, w.r, w.sigma, w.t, mp.k)
    /\ \E n \in 1..MaxLen :
          /\ rng + n <= MaxDraws
          /\ draws' \in Sample(n)
          /\ rng' = rng + n
    /\ \E o \in bsm_vectorized(100 * Scale, w.r, w.sigma, w.t, draws') :
          out' = [o EXCEPT !.op = "hist"]

\* interact(plot_histogram, r=..., sigma=..., t=...): builds the sliders
\* and evaluates plot_histogram once on their initial values
InteractCell ==
    /\ ~ widget.made
    /\ \E aligned \in BOOLEAN :
          widget' = [made |-> TRUE, moved |-> {},
                     r |-> InitialValue(Sliders.r, aligned),
                     sigma |-> InitialValue(Sliders.sigma, aligned),
                     t |-> InitialValue(Sliders.t, aligned)]
    /\ PlotHistogram(widget')
    /\ UNCHANGED <<pc, pass, kernel>>

\* one slider moved to a position of its range
SliderMove ==
    /\ widget.made
    /\ \E name \in SliderNames :
          \E v \in Stops(Sliders[name]) :
             widget' = [widget EXCEPT ![name] = v, !.moved = @ \cup {name}]
    /\ PlotHistogram(widget')
    /\ UNCHANGED <<pc, pass, kernel>>

WidgetNext == InteractCell \/ SliderMove

SpecWidget == SessionInit /\ [][WidgetNext]_vars

-----------------------------------------------------------------------------
(* The kernel: a cell is a sequence of statements, each looking names up   *)
(* and binding names; a failed lookup raises NameError and ends the cell,  *)
(* the bindings made before it stay.  The bodies of the functions are the  *)
(* placeholder ??, so only what the cells show is a statement here         *)

Stmt(uses, binds, def) == [uses |-> uses, binds |-> binds, def |-> def]

\* the code cells, top to bottom
CellOrder == <<"bsm", "bsm_vec", "plot", "widget", "estimate", "call">>

\* the first code cell with its import of numpy left out
Program_without_np(c) ==
    CASE c = "bsm" ->
           <<Stmt(<<>>, {"math"}, "same"),
             Stmt(<<>>, {"bsm"}, "scalar"),
             Stmt(<<"bsm", "np">>, {}, "same")>>
      [] c = "bsm_vec" ->
           <<Stmt(<<>>, {"bsm"}, "vectorized"),
             Stmt(<<>>, {"n"}, "same"),
             Stmt(<<"bsm", "np", "n">>, {}, "same")>>
      [] c = "plot" ->
           <<Stmt(<<>>, {"plt"}, "same"),
             Stmt(<<>>, {"N"}, "same")>>
      [] c = "widget" ->
           <<Stmt(<<>>, {"interact"}, "same"),
             Stmt(<<>>, {"plot_histogram"}, "same"),
             Stmt(<<"interact", "plot_histogram">>, {}, "same")>>
      [] c = "estimate" -> <<>>
      [] c = "call" ->
           <<Stmt(<<>>, {"norm"}, "same"),
             Stmt(<<>>, {"call"}, "same"),
             Stmt(<<"call">>, {}, "same")>>

\* the statements of each code cell, with the names they look up, in the
\* order Python looks them up, and the names they bind
Program(c) ==
    CASE c = "bsm" ->
           <<Stmt(<<>>, {"math"}, "same"),             \* import math
             Stmt(<<>>, {"np"}, "same"),               \* import numpy as np
             Stmt(<<>>, {"bsm"}, "scalar"),            \* def bsm(...)
             Stmt(<<"bsm", "np">>, {}, "same")>>       \* print bsm(.., np.random...)
      [] c = "bsm_vec" ->
           <<Stmt(<<>>, {"bsm"}, "vectorized"),        \* def bsm(...)
             Stmt(<<>>, {"n"}, "same"),                \* n = 10
             Stmt(<<"bsm", "np", "n">>, {}, "same")>>  \* print bsm(.., np.random...(n))
      [] c = "plot" ->
           <<Stmt(<<>>, {"plt"}, "same"),              \* import matplotlib.pyplot as plt
             Stmt(<<>>, {"N"}, "same")>>               \* N = 10000
      [] c = "widget" ->
           <<Stmt(<<>>, {"interact"}, "same"),         \* from ipywidgets import interact
             Stmt(<<>>, {"plot_histogram"}, "same"),   \* def plot_histogram(...)
             Stmt(<<"interact", "plot_histogram">>, {}, "same")>>  \* interact(...)
      [] c = "estimate" -> <<>>                        \* no source
      [] c = "call" ->
           <<Stmt(<<>>, {"norm"}, "same"),             \* from scipy.stats import norm
             Stmt(<<>>, {"call"}, "same"),             \* def call(...)
             Stmt(<<"call">>, {}, "same")>>            \* print call(...)

\* run the statements in order, up to the first failed lookup
RECURSIVE Exec(_, _)
Exec(k, prog) ==
    IF prog = <<>> THEN k
    ELSE LET st == Head(prog)
             unbound == {i \in 1..Len(st.uses) : st.uses[i] \notin k.names}
         IN  IF unbound # {}
             THEN [k EXCEPT !.status = "NameError",
                            !.missing = st.uses[CHOOSE i \in unbound :
                                                  \A j \in unbound : i <= j]]
             ELSE Exec([k EXCEPT !.names = @ \cup st.binds,
                                 !.bsm = IF st.def = "same" THEN @ ELSE st.def],
                       Tail(prog))

\* the kernel after cell c; inorder counts the cells run so far while they
\* have been run top to bottom from the fresh kernel, and is -1 otherwise
RunKernel(c) ==
    Exec([kernel EXCEPT
            !.status = "ok", !.missing = "none", !.last = c,
            !.inorder = IF /\ kernel.inorder >= 0
                           /\ kernel.inorder < Len(CellOrder)
                           /\ CellOrder[kernel.inorder + 1] = c
                        THEN @ + 1 ELSE 0 - 1],
         Program(c))

NotebookParams == Params(100 * Scale, 30000, 400000, 250000, 105 * Scale)

\* import math; import numpy as np; def bsm; print bsm(100, 0.03, 0.4, 3.0/12, z)
RunCellBsm ==
    /\ kernel' = RunKernel("bsm")
    /\ rng + 1 <= MaxDraws
    /\ IF kernel'.status = "ok"
       THEN /\ mp' = NotebookParams
            /\ draws' \in Sample(1)
            /\ rng' = rng + 1
            /\ \E o \in bsm(mp'.s0, mp'.r, mp'.sigma, mp'.t, draws'[1]) :
                  out' = [o EXCEPT !.idx = 1]
       ELSE UNCHANGED <<mp, draws, rng, out>>
    /\ UNCHANGED <<pc, pass, widget>>

\* def bsm (vectorized); n = 10; print bsm(100, 0.03, 0.4, 3.0/12, z_1..z_n)
RunCellBsmVector ==
    /\ kernel' = RunKernel("bsm_vec")
    /\ IF kernel'.status = "ok"
       THEN /\ mp' = NotebookParams
            /\ \E n \in 1..MaxLen :
                  /\ rng + n <= MaxDraws
                  /\ draws' \in Sample(n)
                  /\ rng' = rng + n
            /\ \E o \in bsm_vectorized(mp'.s0, mp'.r, mp'.sigma, mp'.t, draws') :
                  out' = o
       ELSE UNCHANGED <<mp, draws, rng, out>>
    /\ UNCHANGED <<pc, pass, widget>>

\* %matplotlib inline; import matplotlib.pyplot as plt; N = 10000
RunCellPlot ==
    /\ kernel' = RunKernel("plot")
    /\ UNCHANGED <<mp, draws, rng, out, pc, pass, widget>>

\* from ipywidgets import interact; def plot_histogram; interact(...).
\* plot_histogram calls the bsm bound at that moment on a vector of draws:
\* the scalar bsm (math.exp) raises on a vector, an unbound name raises
RunCellWidget ==
    /\ kernel' = RunKernel("widget")
    /\ IF kernel'.status = "ok"
       THEN /\ \E aligned \in BOOLEAN :
                  widget' = [made |-> TRUE, moved |-> {},
                             r |-> InitialValue(Sliders.r, aligned),
                             sigma |-> InitialValue(Sliders.sigma, aligned),
                             t |-> InitialValue(Sliders.t, aligned)]
            /\ IF kernel'.bsm = "vectorized" /\ "np" \in kernel'.names
               THEN PlotHistogram(widget')
               ELSE /\ mp' = Params(100 * Scale, widget'.r, widget'.sigma,
                                    widget'.t, mp.k)
                    /\ out' = Raised("hist")
                    /\ UNCHANGED <<draws, rng>>
       ELSE UNCHANGED <<mp, draws, rng, out, widget>>
    /\ UNCHANGED <<pc, pass>>

\* the estimate cell: its source is empty
RunCellEstimate ==
    /\ kernel' = RunKernel("estimate")
    /\ UNCHANGED <<mp, draws, rng, out, pc, pass, widget>>

\* from scipy.stats import norm; def call; print call(100, 0.03, 0.4, 3.0/12, 105).
\* The body's exp, log and sqrt come from math or numpy, bound by the first
\* code cell; without them the call may fail inside the body
RunCellCall ==
    /\ kernel' = RunKernel("call")
    /\ IF kernel'.status = "ok"
       THEN /\ mp' = NotebookParams
            /\ \E o \in call(mp'.s0, mp'.r, mp'.sigma, mp'.t, mp'.k)
                          \cup (IF "np" \in kernel'.names THEN {}
                                ELSE {Raised("call")}) :
                  out' = o
       ELSE UNCHANGED <<mp, out>>
    /\ UNCHANGED <<draws, rng, pc, pass, widget>>

KernelNext ==
    \/ RunCellBsm \/ RunCellBsmVector \/ RunCellPlot
    \/ RunCellWidget \/ RunCellEstimate \/ RunCellCall

SpecKernel == SessionInit /\ [][KernelNext]_vars

-----------------------------------------------------------------------------
(* Properties *)

ValidTerminal == mp.s0 > 0 /\ mp.sigma > 0 /\ mp.t > 0
ValidMarket == ValidTerminal /\ mp.k > 0
NotebookArgs ==
    /\ mp.s0 = 100 * Scale /\ mp.r = 30000 /\ mp.sigma = 400000
    /\ mp.t = 250000 /\ mp.k = 105 * Scale
IsTerminalOp == out.op \in {"bsm", "bsm_vec"}

\* C1: for scalars s0, r, sigma, t and a scalar draw z on which the formula
\* is defined (t >= 0), bsm returns, and returns exactly
\* s0 * exp((r - 0.5 sigma^2) t + sigma sqrt(t) z)
C1_BsmReturnsFormula ==
    (out.op = "bsm" /\ mp.t >= 0) =>
        /\ out.kind = "value"
        /\ out.val = Mul(mp.s0,
                         Exp(Mul(mp.r - IntDiv(Mul(mp.sigma, mp.sigma), 2), mp.t)
                               + Mul(Mul(mp.sigma, Sqrt(mp.t)), draws[out.idx])))

C1_Witness ==
    /\ out.op = "bsm" /\ out.kind = "value" /\ NotebookArgs
    /\ draws[out.idx] = Scale /\ out.val > mp.s0

\* C2: with t > 0 and sigma > 0, whatever call returns is
\* Phi(d1) s - Phi(d2) k e^{-rt}, d1 = (ln(s/k) + (r + sigma^2/2) t) / (sigma sqrt(t)),
\* d2 = d1 - sigma sqrt(t); and for valid Market Parameters it does return
C2_CallReturnsFormula ==
    (out.op = "call" /\ mp.t > 0 /\ mp.sigma > 0) =>
        /\ ValidMarket => out.kind = "value"
        /\ out.kind = "value" =>
              LET vol == Mul(mp.sigma, Sqrt(mp.t))
                  dd1 == Div(Ln(Div(mp.s0, mp.k))
                               + Mul(mp.r + IntDiv(Mul(mp.sigma, mp.sigma), 2), mp.t),
                             vol)
                  dd2 == dd1 - vol
              IN  out.val = Mul(Phi(dd1), mp.s0)
                              - Mul(Mul(Phi(dd2), mp.k), Exp(0 - Mul(mp.r, mp.t)))

\* the notebook's own call, whose result agrees with the printed 6.19785003662
C2_Witness ==
    /\ out.op = "call" /\ out.kind = "value" /\ NotebookArgs
    /\ Abs(out.val - RecordedCall) <= 100

RECURSIVE PayoffTotal(_, _, _)
PayoffTotal(prices, strike, n) ==
    IF n = 0 THEN 0
    ELSE PayoffTotal(prices, strike, n - 1)
           + (IF prices[n] > strike THEN prices[n] - strike ELSE 0)

\* C3: from n >= 1 terminal prices S_1..S_n the estimator returns
\* e^{-rt} * mean(max(S_i - k, 0)): each payoff floored at 0, the discount
\* factor always applied
C3_EstimateIsDiscountedMeanPayoff ==
    (out.op = "mc" /\ out.kind = "value") =>
        /\ Len(out.vals) = Len(draws) /\ Len(out.vals) >= 1
        /\ out.val = Mul(Exp(0 - Mul(mp.r, mp.t)),
                         IntDiv(PayoffTotal(out.vals, mp.k, Len(out.vals)),
                                Len(out.vals)))

\* an estimate over two paths, one in and one out of the money, at r t > 0
C3_Witness ==
    /\ out.op = "mc" /\ out.kind = "value" /\ NotebookArgs
    /\ Len(out.vals) = 2 /\ out.vals[1] > mp.k /\ out.vals[2] < mp.k
    /\ out.val > 0 /\ 2 * out.val < out.vals[1] - mp.k

C7_CallRejectsNegativeSigmaOrT ==
    (out.op = "call" /\ (mp.sigma < 0 \/ mp.t < 0)) => out.kind = "error"

\* negative sigma with every other parameter valid
C7_Witness ==
    /\ out.op = "call" /\ out.kind = "error"
    /\ mp.sigma < 0 /\ mp.t > 0 /\ mp.s0 > 0 /\ mp.k > 0

\* C8: bsm, scalar and vectorized, rejects negative t and negative sigma
\* with a domain error instead of returning a number or a NaN
C8_BsmRejectsNegativeSigmaOrT ==
    (IsTerminalOp /\ (mp.sigma < 0 \/ mp.t < 0)) => out.kind = "error"

\* C9: non-positive s0 (bsm and call) and non-positive k (call) are
\* rejected with a domain error at the function boundary
C9_RejectsNonPositivePriceOrStrike ==
    /\ (IsTerminalOp /\ mp.s0 <= 0) => out.kind = "error"
    /\ (out.op = "call" /\ (mp.s0 <= 0 \/ mp.k <= 0)) => out.kind = "error"

\* the increments of s0 and of sigma over which prices are compared; the
\* arithmetic resolves a price to a few units of 10^-4, and these increments
\* move every price that is not 0 by more than that
S0Steps == {Scale, 10 * Scale}
SigmaSteps == {200000, 400000}

\* C11: monotonicity: with the other Market Parameters fixed, the call
\* price does not decrease when s0 is raised, and does not decrease when
\* sigma is raised
C11_Monotonicity ==
    (out.op = "call" /\ ValidMarket) =>
        /\ out.kind = "value"
        /\ \A ds \in S0Steps :
              \A o \in call(mp.s0 + ds, mp.r, mp.sigma, mp.t, mp.k) :
                 o.kind = "value" /\ o.val >= out.val
        /\ \A dv \in SigmaSteps :
              \A o \in call(mp.s0, mp.r, mp.sigma + dv, mp.t, mp.k) :
                 o.kind = "value" /\ o.val >= out.val

\* the notebook's call, strictly dearer one unit of s0 up and strictly
\* dearer twenty volatility points up
C11_Witness ==
    /\ out.op = "call" /\ out.kind = "value" /\ NotebookArgs
    /\ \E o \in call(mp.s0 + Scale, mp.r, mp.sigma, mp.t, mp.k) : o.val > out.val
    /\ \E o \in call(mp.s0, mp.r, mp.sigma + 200000, mp.t, mp.k) : o.val > out.val

C13_NonNegativity ==
    /\ (out.op = "call" /\ ValidMarket) => (out.kind = "value" /\ out.val >= 0)
    /\ (out.op = "mc" /\ out.kind = "value") =>
          /\ out.val >= 0
          /\ (\A i \in 1..Len(out.vals) : out.vals[i] <= mp.k) => out.val = 0

\* far out of the money: no path ends above the strike and the estimate is
\* exactly 0, while the closed form is a fraction of a cent above 0
C13_Witness ==
    /\ out.op = "mc" /\ out.kind = "value" /\ ValidMarket
    /\ Len(out.vals) = MaxLen /\ \A i \in 1..Len(out.vals) : out.vals[i] <= mp.k
    /\ out.val = 0
    /\ \E o \in call(mp.s0, mp.r, mp.sigma, mp.t, mp.k) :
          o.kind = "value" /\ o.val > 0 /\ o.val < Scale \div 100

\* C18: for all valid Market Parameters the call price lies between the
\* no-arbitrage bounds: max(s - k e^{-rt}, 0) <= price <= s
C18_NoArbitrageBounds ==
    (out.op = "call" /\ ValidMarket) =>
        /\ out.kind = "value"
        /\ Max(mp.s0 - Mul(mp.k, Exp(0 - Mul(mp.r, mp.t))), 0) <= out.val
        /\ out.val <= mp.s0

\* in the money, with time value: strictly inside both bounds
C18_Witness ==
    /\ out.op = "call" /\ out.kind = "value" /\ ValidMarket
    /\ mp.s0 > Mul(mp.k, Exp(0 - Mul(mp.r, mp.t)))
    /\ mp.s0 - Mul(mp.k, Exp(0 - Mul(mp.r, mp.t))) < out.val
    /\ out.val < mp.s0

C15_DrawsOnlyWhenSampling ==
    [][/\ (pc = "idle" /\ pc' = "mc") =>
             (Len(draws') >= 1 /\ rng' = rng + Len(draws'))
       /\ pc = "mc" => (rng' = rng /\ draws' = draws /\ mp' = mp)
       /\ (pc = "mc" /\ pc' = "idle") =>
             (Len(out'.vals) = Len(draws) /\ pass'.i = Len(draws))
       /\ pc \in {"bsm", "bsm_vec"} =>
             (rng' = rng /\ draws' = draws /\ mp' = mp /\ pass' = pass)
       /\ (pc = "idle" /\ pc' = "idle") =>
             (rng' = rng /\ draws' = draws /\ pass' = pass)
       /\ (widget' = widget /\ kernel' = kernel)]_vars

\* an estimate over two paths has returned: the two variates of its
\* sampling step are the only ones the session has taken
C15_Witness ==
    /\ pc = "idle" /\ out.op = "mc" /\ out.kind = "value"
    /\ Len(out.vals) = 2 /\ pass.i = 2 /\ rng = 2

\* the steps a started computation still has to take: one for a bsm call,
\* one per unvisited path and one for the return of an estimate
Remaining ==
    IF pc = "mc" THEN Len(draws) - pass.i + 1
    ELSE IF pc = "idle" THEN 0
    ELSE 1

\* a started computation has a next step
CanStep ==
    /\ pc = "bsm" => bsm(mp.s0, mp.r, mp.sigma, mp.t, draws[1]) # {}
    /\ pc = "bsm_vec" => bsm_vectorized(mp.s0, mp.r, mp.sigma, mp.t, draws) # {}
    /\ pc = "mc" =>
          /\ pass.i <= Len(draws)
          /\ pass.i < Len(draws) =>
                \E o \in bsm(mp.s0, mp.r, mp.sigma, mp.t, draws[pass.i + 1]) :
                   o.kind = "value"

\* C16: every pricing computation terminates: a started computation can
\* always take its next step, and every step leaves strictly fewer steps to
\* take; the estimator makes a single pass over its n >= 1 samples, so it
\* returns after n path steps, and bsm and call return in one step
C16_Termination ==
    /\ [](pc # "idle" => (CanStep /\ Remaining >= 1))
    /\ [](pc = "mc" => (Len(draws) >= 1 /\ Len(pass.prices) = pass.i))
    /\ [][pc # "idle" => Remaining' < Remaining]_vars
    /\ [][pc = "mc" => pass'.i \in {pass.i, pass.i + 1}]_vars

\* an estimate has returned after visiting each of its MaxLen paths once
C16_Witness ==
    /\ pc = "idle" /\ out.op = "mc" /\ out.kind = "value"
    /\ Len(draws) = MaxLen /\ pass.i = MaxLen /\ out.vals = pass.prices

InRange(sl, v) == sl.lo <= v /\ v <= sl.hi
OnGrid(sl, v) == InRange(sl, v) /\ (v - sl.lo) % sl.step = 0

C19_NamesBoundTopToBottom ==
    /\ kernel.inorder >= 1 =>
          /\ kernel.status = "ok"
          /\ {"math", "np", "bsm"} \subseteq kernel.names
    /\ kernel.inorder >= 2 => kernel.bsm = "vectorized"
    /\ kernel.inorder >= 4 => {"interact", "plot_histogram"} \subseteq kernel.names
    /\ kernel.inorder >= 6 => {"norm", "call"} \subseteq kernel.names
    /\ (kernel.last = "bsm_vec" /\ "np" \notin kernel.names) =>
          (kernel.status = "NameError" /\ kernel.missing = "np")
    /\ (kernel.last = "bsm" /\ kernel.status = "ok") => kernel.bsm = "scalar"

\* all six code cells run top to bottom: the last one printed the call
\* price while bsm is the vectorized definition
C19_Witness ==
    /\ kernel.inorder = 6 /\ kernel.status = "ok" /\ kernel.bsm = "vectorized"
    /\ out.op = "call" /\ out.kind = "value" /\ widget.made

====
